---- MODULE Spec2Model ----
(***************************************************************************)
(* Model of the PRI side of the OnePin link (class MD_OnePin).             *)
(*                                                                         *)
(* The state is the object's fields, the state of the one I/O pin, the     *)
(* host's microsecond counter and the position of the running call with    *)
(* its locals.  A call of begin(), write() or read() runs as a sequence of *)
(* steps, one per primitive pin operation or delay (one per loop iteration *)
(* in the two calibration loops of begin()); the program is single         *)
(* threaded, so a new call starts only when pc = "idle".                   *)
(*                                                                         *)
(* The environment is the host (what a pinMode() and a digitalWrite() cost *)
(* in microseconds, where its microsecond counter stands when begin() is   *)
(* entered) and the SEC (what level the line has when the PRI samples it). *)
(* As the header documents, begin() is called before the first write() or  *)
(* read().                                                                 *)
(*                                                                         *)
(* Beside the program's own state the model keeps a record of the running  *)
(* call: the slots it has completed and how long each took, the primitive  *)
(* calls it has made, the times of the edges of the slot in progress, and  *)
(* what the call found on entry.  The record starts afresh with each call. *)
(***************************************************************************)
EXTENDS Integers, Sequences, FiniteSets, TLC

VARIABLES
  _pin,         \* uint8_t  comms pin number
  _presence,    \* bool     result of the last presence check
  _bppPri,      \* uint8_t  bits per packet, PRI to SEC
  _bppSec,      \* uint8_t  bits per packet, SEC to PRI
  _switchTime,  \* uint16_t average microseconds of a SET_TO_*
  _writeTime,   \* uint16_t average microseconds of a digitalWrite()
  pinMode,      \* the pin's direction: "INPUT", "INPUT_PULLUP" or "OUTPUT"
  pinOut,       \* the level last written to the pin with digitalWrite()
  switchCost,   \* host: microseconds one pinMode() takes
  writeCost,    \* host: microseconds one digitalWrite() takes
  clock,        \* host: the value micros() returns now (32 bit)
  begun,        \* begin() has returned at least once
  op,           \* the call that is running, or that returned last
  pc,           \* position inside the running call; "idle" between calls
  noReset,      \* argument of write() / read()
  arg,          \* argument data of write(), as passed
  data,         \* write(): the parameter data, shifted as the loop goes
  i,            \* loop counter (uint8_t)
  packet,       \* read(): uint32_t packet
  mask,         \* read(): packet_t mask
  start,        \* begin(): uint32_t start
  sec,          \* SEC: the bits it answers the Read slots of this call with
  cur,          \* the slot in progress: "RST", "WR0", "WR1", "RD" or "none"
  sampled,      \* level returned by the last digitalRead()
  slots,        \* the slots completed by this call, in order
  lastDelay,    \* the last delayMicroseconds() of this call
  ret,          \* value returned by the call that returned last
  entry,        \* what this call found on entry: the presence flag and, for
                \* a call with noReset, the slots of the call before it
  prims,        \* how many pinMode(), digitalWrite(), digitalRead() and
                \* delayMicroseconds() this call has made, and how many of
                \* the pinMode() released the line
  stamp,        \* micros() at the start of the pull, at the rising edge and
                \* at the sample of the slot in progress
  took          \* the microseconds each completed slot of this call took

vars == << _pin, _presence, _bppPri, _bppSec, _switchTime, _writeTime,
           pinMode, pinOut, switchCost, writeCost, clock, begun, op, pc,
           noReset, arg, data, i, packet, mask, start, sec, cur, sampled,
           slots, lastDelay, ret, entry, prims, stamp, took >>

obj    == << _pin, _presence, _bppPri, _bppSec, _switchTime, _writeTime >>
host   == << switchCost, writeCost >>

----------------------------------------------------------------------------
(* Bounds of the model *)

\* widths handed to the constructor range over 0..MaxBpp
MaxBpp == 33
\* a host whose primitives cost more than the shortest nominal delays
SlowCost == 45

----------------------------------------------------------------------------
(* Arduino levels and machine arithmetic *)

LOW  == 0
HIGH == 1

\* width of uint16_t (_switchTime, _writeTime, the OPT_ constants) and of
\* the unsigned int that delayMicroseconds() takes on a 16 bit host
ShortBits == 16
\* width of packet_t, uint32_t and of the micros() counter
PacketBits == 32

Half == 2 ^ ShortBits
U16(n) == n % Half

Bit(v, k) == (v \div (2 ^ k)) % 2

RECURSIVE BitOr(_, _, _)
BitOr(a, b, k) ==
  IF k = 0 THEN 0
  ELSE BitOr(a, b, k - 1)
       + (IF Bit(a, k - 1) = 1 \/ Bit(b, k - 1) = 1 THEN 2 ^ (k - 1) ELSE 0)

\* A 32 bit unsigned value is the pair << high half, low half >> of 16 bit
\* values: the value is w[1] * 2^16 + w[2].
W32(hi, lo) == << hi, lo >>
Zero32 == W32(0, 0)
One32  == W32(0, 1)
Ones32 == W32(Half - 1, Half - 1)

\* bit k of w; a 32 bit value has no bit at k >= 32
WBit(w, k) ==
  IF k < ShortBits THEN Bit(w[2], k)
  ELSE IF k < PacketBits THEN Bit(w[1], k - ShortBits)
  ELSE 0

\* a | b
WOr(a, b) == W32(BitOr(a[1], b[1], ShortBits), BitOr(a[2], b[2], ShortBits))

\* w << 1 and w >> 1 in 32 bits
WShl(w) == W32(U16(w[1] * 2 + w[2] \div (Half \div 2)), U16(w[2] * 2))
WShr(w) == W32(w[1] \div 2, w[2] \div 2 + (w[1] % 2) * (Half \div 2))

\* w + n in 32 bits, for 0 <= n < 2^17
WAdd(w, n) == W32(U16(w[1] + (w[2] + n) \div Half), U16(w[2] + n))

\* a subtraction that loses the borrow between the halves
WSub_NoBorrow(a, b) ==
  W32(U16(a[1] - b[1] + Half), U16(a[2] - b[2] + Half))

\* a - b in 32 bits
WSub(a, b) ==
  W32(U16(a[1] - b[1] - (IF a[2] < b[2] THEN 1 ELSE 0) + Half),
      U16(a[2] - b[2] + Half))

\* (uint16_t)(w >> n), for 0 < n < 16
WShrTo16(w, n) == U16(w[1] * (2 ^ (ShortBits - n)) + w[2] \div (2 ^ n))

Max(a, b) == IF a >= b THEN a ELSE b

----------------------------------------------------------------------------
(* MD_OnePin_Protocol.h: timing values in microseconds *)

OPT == 80
OPT_RST_SIGNAL     == 5 * OPT
OPT_RST_PRESENCE   == (3 * OPT) \div 2
OPT_RST_PRS_SAMPLE == OPT
OPT_RST_END        == (3 * OPT) \div 2
OPT_WR1_SIGNAL     == OPT \div 2
OPT_WR1_PAUSE      == OPT - OPT_WR1_SIGNAL
OPT_WR0_SIGNAL     == (3 * OPT) \div 2
OPT_WR0_PAUSE      == (2 * OPT) - OPT_WR0_SIGNAL
OPT_RD_INIT        == (5 * OPT) \div 2
OPT_RD0_SIGNAL     == OPT
OPT_RD_SAMPLE      == OPT_RD0_SIGNAL \div 2
OPT_RD_PAUSE       == OPT

----------------------------------------------------------------------------
(* Inputs *)

\* a constructed instance: the two widths are uint8_t, stored unchecked
Widths == 0 .. MaxBpp

\* hosts: << microseconds per pinMode(), microseconds per digitalWrite() >>
NominalHost == << 4, 6 >>
\* a host whose pinMode() costs as much as the shortest nominal delay
EdgeHost == << OPT \div 2, 6 >>
Hosts == { << 0, 0 >>, NominalHost, EdgeHost, << SlowCost + 5, SlowCost >> }

\* instances and the hosts they run on: every width on the nominal host,
\* and two small instances on each of the other hosts
Configs ==
  { << w, MaxBpp - w, NominalHost >> : w \in Widths }
    \cup { << w, 3 - w, h >> : w \in 1 .. 2, h \in Hosts \ { NominalHost } }

\* what the fields a constructor leaves uninitialised may hold
Uninit == { 0, Half - 1 }

\* values of micros() on entry of begin(); from the second one the counter
\* wraps during the first calibration loop, from the third one during the
\* second loop on the nominal host
ClockStarts ==
  { Zero32, W32(Half - 1, Half - 300), W32(Half - 1, Half - 1000) }

\* data values handed to write()
DataSet == { Zero32, One32, W32(0, 180), W32(43690, 43690), Ones32 }

\* SEC answers to the Read slots of one read(): << w, rest >>, where bit k
\* of w is the level of the line in slot k < 32 and rest the level in every
\* later slot (all HIGH: the line stays pulled up, as with no SEC)
SecSet == { << Zero32, LOW >>, << W32(0, 180), LOW >>, << Ones32, HIGH >> }

\* the directions a pin can have; the constructor does not touch the pin,
\* so a new instance finds it in any of them, at either level
PinModes == { "INPUT", "INPUT_PULLUP", "OUTPUT" }

NoDelay == [ nominal |-> 0, corr |-> 0, arg |-> 0 ]

\* no primitive called yet, no edge seen yet
NoPrims == [ mode |-> 0, release |-> 0, write |-> 0, read |-> 0, delay |-> 0 ]
NoStamp == [ low |-> Zero32, high |-> Zero32, sample |-> Zero32 ]

IsData(k) == k \in { "WR0", "WR1", "RD" }
IsWrite(k) == k \in { "WR0", "WR1" }

\* how many logged slots have a kind in the set ks
Count(ks) == Cardinality({ k \in 1 .. Len(slots) : slots[k][1] \in ks })

----------------------------------------------------------------------------
(* The pin primitives *)

\* pinMode(_pin, m): SET_TO_INPUT / SET_TO_OUTPUT
SetMode(m) ==
  /\ pinMode' = m
  /\ pinOut' = pinOut
  /\ clock' = WAdd(clock, switchCost)
  /\ prims' = [ prims EXCEPT !.mode = @ + 1,
                              !.release = @ + (IF m = "OUTPUT" THEN 0 ELSE 1) ]

\* an input without the pull-up
SET_TO_INPUT_Floating == SetMode("INPUT")

\* #define SET_TO_INPUT  pinMode(_pin, INPUT_PULLUP)
SET_TO_INPUT == SetMode("INPUT_PULLUP")

\* #define SET_TO_OUTPUT pinMode(_pin, OUTPUT)
SET_TO_OUTPUT == SetMode("OUTPUT")

\* digitalWrite(_pin, v)
DigitalWrite(v) ==
  /\ pinOut' = v
  /\ pinMode' = pinMode
  /\ clock' = WAdd(clock, writeCost)
  /\ prims' = [ prims EXCEPT !.write = @ + 1 ]

\* a delay that forgets the correction
DelayArg_Uncorrected(nominal, corr) == U16(nominal)

\* the argument delayMicroseconds() receives for (nominal - correction)
DelayArg(nominal, corr) == U16(nominal - corr)

\* delayMicroseconds(nominal - corr)
Delay(nominal, corr) ==
  /\ lastDelay' = [ nominal |-> nominal, corr |-> corr,
                    arg |-> DelayArg(nominal, corr) ]
  /\ clock' = WAdd(clock, DelayArg(nominal, corr))
  /\ prims' = [ prims EXCEPT !.delay = @ + 1 ]
  /\ UNCHANGED << pinMode, pinOut >>

\* digitalRead(_pin) when the line is at level lvl: an output reads back
\* what it drives
DigitalRead(lvl) == IF pinMode = "OUTPUT" THEN pinOut ELSE lvl

----------------------------------------------------------------------------
(* Construction *)

Init ==
  /\ \E c \in Configs :
       /\ _bppPri = c[1]
       /\ _bppSec = c[2]
       /\ switchCost = c[3][1]
       /\ writeCost = c[3][2]
  /\ _pin = 2
  /\ _presence = FALSE
  /\ \E u \in Uninit : _switchTime = u /\ _writeTime = u
  /\ pinMode \in PinModes
  /\ pinOut \in { LOW, HIGH }
  /\ clock = Zero32
  /\ begun = FALSE
  /\ op = "construct"
  /\ pc = "idle"
  /\ noReset = FALSE
  /\ arg = Zero32
  /\ data = Zero32
  /\ i = 0
  /\ packet = Zero32
  /\ mask = Zero32
  /\ start = Zero32
  /\ sec = << Zero32, LOW >>
  /\ cur = "none"
  /\ sampled = HIGH
  /\ slots = << >>
  /\ lastDelay = NoDelay
  /\ ret = "none"
  /\ entry = [ presence |-> FALSE, resets |-> 0, writes |-> 0 ]
  /\ prims = NoPrims
  /\ stamp = NoStamp
  /\ took = << >>

----------------------------------------------------------------------------
(* Entering and leaving a call *)

\* a call starts: its arguments and locals are fresh, nothing is in
\* progress or logged yet (nr, d: the arguments; s: what the SEC will
\* answer; t0: the value of micros() on entry).  The call finds the
\* presence flag as the calls before left it; a call with noReset goes on
\* from the slots of the call before it
Enter(name, nr, d, s, t0) ==
  /\ pc = "idle"
  /\ op' = name
  /\ noReset' = nr
  /\ arg' = d
  /\ data' = d
  /\ sec' = s
  /\ clock' = t0
  /\ start' = t0
  /\ i' = 0
  /\ packet' = Zero32
  /\ mask' = IF name = "read" THEN One32 ELSE Zero32
  /\ cur' = "none"
  /\ sampled' = HIGH
  /\ slots' = << >>
  /\ lastDelay' = NoDelay
  /\ entry' = [ presence |-> _presence,
                resets |-> IF nr THEN Count({ "RST" }) ELSE 0,
                writes |-> IF nr THEN Count({ "WR0", "WR1" }) ELSE 0 ]
  /\ prims' = NoPrims
  /\ stamp' = NoStamp
  /\ took' = << >>

\* return(v)
Return(v) ==
  /\ pc' = "idle"
  /\ ret' = v

\* begin() "needs to be called during setup()": the application calls
\* write() and read() on an instance that begin() has initialised
Ready == begun

----------------------------------------------------------------------------
(* void MD_OnePin::begin(void) *)

\* the loop counts of the two calibration loops and the shifts that divide
\* the elapsed time by twice the count
SwitchLoops == 64
SwitchShift == 7
WriteLoops  == 128
WriteShift  == 8

\* the elapsed time divided by the loop count, not by the number of calls
Average_PerLoop(now, since, shift) ==
  WShrTo16(WSub(now, since), shift - 1)

\* (micros() - start) >> shift, stored in a uint16_t
Average(now, since, shift) == WShrTo16(WSub(now, since), shift)

\* begin() forgetting to raise the line again
IdleLevel_Low == LOW

\* the level begin() leaves the pin at
IdleLevel == HIGH

\* uint32_t start = micros();
CallBegin(t0) ==
  /\ Enter("begin", FALSE, Zero32, << Zero32, LOW >>, t0)
  /\ pc' = "b_switch"
  /\ ret' = "none"
  /\ UNCHANGED << obj, host, pinMode, pinOut, begun >>

\* for (i < 64) { SET_TO_OUTPUT; SET_TO_INPUT; }
BeginSwitchLoop ==
  /\ pc = "b_switch"
  /\ i < SwitchLoops
  /\ pinMode' = "INPUT_PULLUP"
  /\ clock' = WAdd(clock, 2 * switchCost)
  /\ prims' = [ prims EXCEPT !.mode = @ + 2, !.release = @ + 1 ]
  /\ i' = i + 1
  /\ UNCHANGED << obj, host, pinOut, begun, op, pc, noReset, arg, data,
                  packet, mask, start, sec, cur, sampled, slots, lastDelay,
                  ret, entry, stamp, took >>

\* _switchTime = (micros() - start) >> 7;
BeginSwitchTime ==
  /\ pc = "b_switch"
  /\ ~(i < SwitchLoops)
  /\ _switchTime' = Average(clock, start, SwitchShift)
  /\ pc' = "b_output"
  /\ UNCHANGED << _pin, _presence, _bppPri, _bppSec, _writeTime, host,
                  pinMode, pinOut, clock, begun, op, noReset, arg, data, i,
                  packet, mask, start, sec, cur, sampled, slots, lastDelay,
                  ret, entry, prims, stamp, took >>

\* SET_TO_OUTPUT; start = micros();
BeginSetOutput ==
  /\ pc = "b_output"
  /\ SET_TO_OUTPUT
  /\ start' = clock'
  /\ i' = 0
  /\ pc' = "b_write"
  /\ UNCHANGED << obj, host, begun, op, noReset, arg, data, packet, mask,
                  sec, cur, sampled, slots, lastDelay, ret, entry, stamp,
                  took >>

\* for (i < 128) { digitalWrite(_pin, HIGH); digitalWrite(_pin, LOW); }
BeginWriteLoop ==
  /\ pc = "b_write"
  /\ i < WriteLoops
  /\ pinOut' = LOW
  /\ clock' = WAdd(clock, 2 * writeCost)
  /\ prims' = [ prims EXCEPT !.write = @ + 2 ]
  /\ i' = i + 1
  /\ UNCHANGED << obj, host, pinMode, begun, op, pc, noReset, arg, data,
                  packet, mask, start, sec, cur, sampled, slots, lastDelay,
                  ret, entry, stamp, took >>

\* _writeTime = (micros() - start) >> 8;
BeginWriteTime ==
  /\ pc = "b_write"
  /\ ~(i < WriteLoops)
  /\ _writeTime' = Average(clock, start, WriteShift)
  /\ pc' = "b_idle"
  /\ UNCHANGED << _pin, _presence, _bppPri, _bppSec, _switchTime, host,
                  pinMode, pinOut, clock, begun, op, noReset, arg, data, i,
                  packet, mask, start, sec, cur, sampled, slots, lastDelay,
                  ret, entry, prims, stamp, took >>

\* digitalWrite(_pin, HIGH); and begin() returns
BeginIdle ==
  /\ pc = "b_idle"
  /\ DigitalWrite(IdleLevel)
  /\ begun' = TRUE
  /\ Return("void")
  /\ UNCHANGED << obj, host, op, noReset, arg, data, i, packet, mask, start,
                  sec, cur, sampled, slots, lastDelay, entry, stamp, took >>

----------------------------------------------------------------------------
(* OP_SIGNAL(active, pause) and the slots built on it *)

\* what no step of write(), read() and resetComm() assigns
fixed == << _pin, _bppPri, _bppSec, _switchTime, _writeTime, switchCost,
            writeCost, begun, op, noReset, arg, sec, start, entry >>

\* the parameter active of the OP_SIGNAL that opens slot c
Active(c) ==
  CASE c = "RST" -> OPT_RST_SIGNAL
    [] c = "WR1" -> OPT_WR1_SIGNAL
    [] c = "WR0" -> OPT_WR0_SIGNAL
    [] c = "RD"  -> OPT_RD_INIT

\* the parameter pause of the OP_SIGNAL that opens slot c
Pause(c) ==
  CASE c = "RST" -> 0
    [] c = "WR1" -> OPT_WR1_PAUSE
    [] c = "WR0" -> OPT_WR0_PAUSE
    [] c = "RD"  -> 0

\* a pull that corrects each delay for two digitalWrite() calls
SignalCorrection_Twice == 2 * _writeTime

\* the correction subtracted from the two delays of OP_SIGNAL
SignalCorrection == _writeTime

\* a direction change corrected for two pinMode() calls
SwitchCorrection_Twice == 2 * _switchTime

\* the correction subtracted from the delays that follow a SET_TO_*
SwitchCorrection == _switchTime

\* data & 1
LowBit(d) == WBit(d, 0)

\* the loop shifting the wrong way (MSB first)
ShiftRight_Left(d) == WShl(d)

\* data >>= 1
ShiftRight(d) == WShr(d)

\* the slot write() emits for the data still to send
WriteSlot(d) == IF LowBit(d) = 1 THEN "WR1" ELSE "WR0"

\* the bit a Write slot carries
SlotBit(c) == IF c = "WR1" THEN 1 ELSE 0

\* OP_SIGNAL is over.  In resetComm() and read() the code goes on inside
\* the slot; in write() the slot is complete and the loop steps (i++,
\* data >>= 1)
SignalDone ==
  CASE cur = "RST" -> pc' = "r_input" /\ UNCHANGED << slots, took, i, data >>
    [] cur = "RD"  -> pc' = "rd_input" /\ UNCHANGED << slots, took, i, data >>
    [] OTHER       -> /\ slots' = Append(slots, << cur, SlotBit(cur) >>)
                      /\ took' = Append(took, WSub(clock', stamp.low))
                      /\ i' = i + 1
                      /\ data' = ShiftRight(data)
                      /\ pc' = "w_loop"

\* digitalWrite(_pin, LOW);
SignalLow ==
  /\ pc = "sig_low"
  /\ DigitalWrite(LOW)
  /\ stamp' = [ stamp EXCEPT !.low = clock ]
  /\ pc' = "sig_active"
  /\ UNCHANGED << fixed, _presence, data, i, packet, mask, cur, sampled,
                  slots, lastDelay, ret, took >>

\* delayMicroseconds(active - _writeTime);
SignalActive ==
  /\ pc = "sig_active"
  /\ Delay(Active(cur), SignalCorrection)
  /\ pc' = "sig_high"
  /\ UNCHANGED << fixed, _presence, data, i, packet, mask, cur, sampled,
                  slots, ret, stamp, took >>

\* digitalWrite(_pin, HIGH); if (pause != 0) ...
SignalHigh ==
  /\ pc = "sig_high"
  /\ DigitalWrite(HIGH)
  /\ stamp' = [ stamp EXCEPT !.high = clock' ]
  /\ IF Pause(cur) # 0
       THEN pc' = "sig_pause" /\ UNCHANGED << slots, took, i, data >>
       ELSE SignalDone
  /\ UNCHANGED << fixed, _presence, packet, mask, cur, sampled, lastDelay,
                  ret >>

\* delayMicroseconds(pause - _writeTime);
SignalPause ==
  /\ pc = "sig_pause"
  /\ Delay(Pause(cur), SignalCorrection)
  /\ SignalDone
  /\ UNCHANGED << fixed, _presence, packet, mask, cur, sampled, ret, stamp >>

----------------------------------------------------------------------------
(* bool MD_OnePin::resetComm(void) *)

\* presence taken from an idle (HIGH) line
PresenceOf_High(lvl) == (lvl = HIGH)

\* _presence = (digitalRead(_pin) == LOW)
PresenceOf(lvl) == (lvl = LOW)

\* SET_TO_OUTPUT; and the OP_SIGNAL(OPT_RST_SIGNAL, 0) starts
ResetSetOutput ==
  /\ pc = "r_output"
  /\ SET_TO_OUTPUT
  /\ cur' = "RST"
  /\ pc' = "sig_low"
  /\ UNCHANGED << fixed, _presence, data, i, packet, mask, sampled, slots,
                  lastDelay, ret, stamp, took >>

\* SET_TO_INPUT;
ResetSetInput ==
  /\ pc = "r_input"
  /\ SET_TO_INPUT
  /\ pc' = "r_wait"
  /\ UNCHANGED << fixed, _presence, data, i, packet, mask, cur, sampled,
                  slots, lastDelay, ret, stamp, took >>

\* delayMicroseconds(OPT_RST_PRS_SAMPLE - _switchTime);
ResetWait ==
  /\ pc = "r_wait"
  /\ Delay(OPT_RST_PRS_SAMPLE, SwitchCorrection)
  /\ pc' = "r_sample"
  /\ UNCHANGED << fixed, _presence, data, i, packet, mask, cur, sampled,
                  slots, ret, stamp, took >>

\* a resetComm() that takes the presence sample as a new calibration too
Members_Recalibrated(lvl) ==
  [ presence |-> PresenceOf(lvl), switchTime |-> lvl, writeTime |-> lvl ]

\* the members that the steps of write(), read() and resetComm() could
\* assign, after the one assignment to a member these functions make,
\* _presence = (digitalRead(_pin) == LOW): the calibration is only read
Members(lvl) ==
  [ presence |-> PresenceOf(lvl), switchTime |-> _switchTime,
    writeTime |-> _writeTime ]

\* _presence = (digitalRead(_pin) == LOW); the SEC holds the line at lvl
ResetSample(lvl) ==
  /\ pc = "r_sample"
  /\ sampled' = DigitalRead(lvl)
  /\ _presence' = Members(sampled').presence
  /\ _switchTime' = Members(sampled').switchTime
  /\ _writeTime' = Members(sampled').writeTime
  /\ prims' = [ prims EXCEPT !.read = @ + 1 ]
  /\ stamp' = [ stamp EXCEPT !.sample = clock ]
  /\ pc' = "r_restore"
  /\ UNCHANGED << _pin, _bppPri, _bppSec, host, begun, op, noReset, arg, sec,
                  start, entry, pinMode, pinOut, clock, data, i, packet, mask,
                  cur, slots, lastDelay, ret, took >>

\* SET_TO_OUTPUT;
ResetRestoreOutput ==
  /\ pc = "r_restore"
  /\ SET_TO_OUTPUT
  /\ pc' = "r_end"
  /\ UNCHANGED << fixed, _presence, data, i, packet, mask, cur, sampled,
                  slots, lastDelay, ret, stamp, took >>

\* resetComm() trying again until the SEC answers
ResetReturn_Retry ==
  IF sampled = HIGH /\ slots = << >> THEN "r_output"
  ELSE IF op = "write" THEN "w_test" ELSE "rd_test"

\* return(_presence); back in the caller, whatever was sampled
ResetReturn == IF op = "write" THEN "w_test" ELSE "rd_test"

\* delayMicroseconds(OPT_RST_END - _switchTime); return(_presence);
ResetEnd ==
  /\ pc = "r_end"
  /\ Delay(OPT_RST_END, SwitchCorrection)
  /\ slots' = Append(slots, << "RST", sampled >>)
  /\ took' = Append(took, WSub(clock', stamp.low))
  /\ cur' = "none"
  /\ pc' = ResetReturn
  /\ UNCHANGED << fixed, _presence, data, i, packet, mask, sampled, ret,
                  stamp >>

----------------------------------------------------------------------------
(* bool MD_OnePin::write(packet_t data, bool noReset) *)

\* write() transmitting without looking at the presence
WriteTransmits_Always == TRUE

\* write() holding back on an absent SEC even when told not to reset
WriteTransmits_PresentOnly == _presence

\* if (noReset || _presence)
WriteTransmits == noReset \/ _presence

\* write() reporting the absence instead of the presence
WriteResult_Absence == ~_presence

\* return(_presence);
WriteResult == _presence

\* write() resetting the link when told not to
WriteEntry_Swapped(nr) == IF nr THEN "r_output" ELSE "w_test"

\* if (!noReset) resetComm();
WriteEntry(nr) == IF nr THEN "w_test" ELSE "r_output"

\* if (!noReset) resetComm();
CallWrite(d, nr) ==
  /\ Ready
  /\ Enter("write", nr, d, << Zero32, LOW >>, Zero32)
  /\ pc' = WriteEntry(nr)
  /\ ret' = "none"
  /\ UNCHANGED << obj, host, pinMode, pinOut, begun >>

\* if (noReset || _presence) { ... } return(_presence);
WriteTest ==
  /\ pc = "w_test"
  /\ IF WriteTransmits
       THEN pc' = "w_loop" /\ ret' = ret
       ELSE Return(WriteResult)
  /\ UNCHANGED << fixed, _presence, pinMode, pinOut, clock, data, i, packet,
                  mask, cur, sampled, slots, lastDelay, prims, stamp, took >>

\* for (i < _bppPri) { if (data & 1) OP_SIGNAL(..) else OP_SIGNAL(..) }
\* return(_presence);
WriteLoop ==
  /\ pc = "w_loop"
  /\ IF i < _bppPri
       THEN cur' = WriteSlot(data) /\ pc' = "sig_low" /\ ret' = ret
       ELSE cur' = "none" /\ Return(WriteResult)
  /\ UNCHANGED << fixed, _presence, pinMode, pinOut, clock, data, i, packet,
                  mask, sampled, slots, lastDelay, prims, stamp, took >>

----------------------------------------------------------------------------
(* packet_t MD_OnePin::read(bool noReset) *)

\* read() never giving up on an absent SEC
ReadAbsent_Never == FALSE

\* if (!noReset && !_presence)
ReadAbsent == ~noReset /\ ~_presence

\* return (0xffffffff);
ReadSentinel == Ones32

\* packet |= mask
SetBit(p, m) == WOr(p, m)

\* mask <<= 1
ShiftLeft(m) == WShl(m)

\* the level of the line when the PRI samples Read slot k of this call
LineLevel(k) == IF k < PacketBits THEN WBit(sec[1], k) ELSE sec[2]

\* read() resetting the link only when told not to
ReadEntry_Swapped(nr) == IF nr THEN "r_output" ELSE "rd_test"

\* if (!noReset) resetComm();
ReadEntry(nr) == IF nr THEN "rd_test" ELSE "r_output"

\* uint32_t packet = 0; packet_t mask = 1; if (!noReset) resetComm();
CallRead(nr, s) ==
  /\ Ready
  /\ Enter("read", nr, Zero32, s, Zero32)
  /\ pc' = ReadEntry(nr)
  /\ ret' = "none"
  /\ UNCHANGED << obj, host, pinMode, pinOut, begun >>

\* if (!noReset && !_presence) return (0xffffffff);
ReadTest ==
  /\ pc = "rd_test"
  /\ IF ReadAbsent
       THEN Return(ReadSentinel)
       ELSE pc' = "rd_loop" /\ ret' = ret
  /\ UNCHANGED << fixed, _presence, pinMode, pinOut, clock, data, i, packet,
                  mask, cur, sampled, slots, lastDelay, prims, stamp, took >>

\* for (i < _bppSec) { OP_SIGNAL(OPT_RD_INIT, 0); ... } return(packet);
ReadLoop ==
  /\ pc = "rd_loop"
  /\ IF i < _bppSec
       THEN cur' = "RD" /\ pc' = "sig_low" /\ ret' = ret
       ELSE cur' = "none" /\ Return(packet)
  /\ UNCHANGED << fixed, _presence, pinMode, pinOut, clock, data, i, packet,
                  mask, sampled, slots, lastDelay, prims, stamp, took >>

\* SET_TO_INPUT;
ReadSetInput ==
  /\ pc = "rd_input"
  /\ SET_TO_INPUT
  /\ pc' = "rd_wait"
  /\ UNCHANGED << fixed, _presence, data, i, packet, mask, cur, sampled,
                  slots, lastDelay, ret, stamp, took >>

\* delayMicroseconds(OPT_RD_SAMPLE - _switchTime);
ReadWait ==
  /\ pc = "rd_wait"
  /\ Delay(OPT_RD_SAMPLE, SwitchCorrection)
  /\ pc' = "rd_sample"
  /\ UNCHANGED << fixed, _presence, data, i, packet, mask, cur, sampled,
                  slots, ret, stamp, took >>

\* if (digitalRead(_pin) == HIGH) packet |= mask;
ReadSample ==
  /\ pc = "rd_sample"
  /\ sampled' = DigitalRead(LineLevel(i))
  /\ packet' = IF sampled' = HIGH THEN SetBit(packet, mask) ELSE packet
  /\ prims' = [ prims EXCEPT !.read = @ + 1 ]
  /\ stamp' = [ stamp EXCEPT !.sample = clock ]
  /\ pc' = "rd_restore"
  /\ UNCHANGED << fixed, _presence, pinMode, pinOut, clock, data, i, mask,
                  cur, slots, lastDelay, ret, took >>

\* SET_TO_OUTPUT;
ReadRestoreOutput ==
  /\ pc = "rd_restore"
  /\ SET_TO_OUTPUT
  /\ pc' = "rd_pause"
  /\ UNCHANGED << fixed, _presence, data, i, packet, mask, cur, sampled,
                  slots, lastDelay, ret, stamp, took >>

\* delayMicroseconds(OPT_RD_PAUSE - _switchTime); and the loop steps
\* (i++, mask <<= 1)
ReadPause ==
  /\ pc = "rd_pause"
  /\ Delay(OPT_RD_PAUSE, SwitchCorrection)
  /\ slots' = Append(slots, << "RD", sampled >>)
  /\ took' = Append(took, WSub(clock', stamp.low))
  /\ i' = i + 1
  /\ mask' = ShiftLeft(mask)
  /\ pc' = "rd_loop"
  /\ UNCHANGED << fixed, _presence, data, packet, cur, sampled, ret, stamp >>

----------------------------------------------------------------------------
(* inline bool isPresent(void) { return(_presence); } *)

isPresent == _presence

CallIsPresent ==
  /\ Enter("isPresent", FALSE, Zero32, << Zero32, LOW >>, Zero32)
  /\ Return(isPresent)
  /\ UNCHANGED << obj, host, pinMode, pinOut, begun >>

----------------------------------------------------------------------------
(* The program *)

Next ==
  \/ \E t0 \in ClockStarts : CallBegin(t0)
  \/ BeginSwitchLoop
  \/ BeginSwitchTime
  \/ BeginSetOutput
  \/ BeginWriteLoop
  \/ BeginWriteTime
  \/ BeginIdle
  \/ \E d \in DataSet, nr \in BOOLEAN : CallWrite(d, nr)
  \/ \E nr \in BOOLEAN, s \in SecSet : CallRead(nr, s)
  \/ CallIsPresent
  \/ ResetSetOutput
  \/ ResetSetInput
  \/ ResetWait
  \/ \E lvl \in { LOW, HIGH } : ResetSample(lvl)
  \/ ResetRestoreOutput
  \/ ResetEnd
  \/ SignalLow
  \/ SignalActive
  \/ SignalHigh
  \/ SignalPause
  \/ WriteTest
  \/ WriteLoop
  \/ ReadTest
  \/ ReadLoop
  \/ ReadSetInput
  \/ ReadWait
  \/ ReadSample
  \/ ReadRestoreOutput
  \/ ReadPause

Spec == Init /\ [][Next]_vars

----------------------------------------------------------------------------
(* Reading the log of a call *)

\* the call named name has returned and no other call has started since
Returned(name) == pc = "idle" /\ op = name

\* the logged slots after the Reset/Presence slot, if there is one
DataSlots ==
  IF Len(slots) > 0 /\ slots[1][1] = "RST" THEN Tail(slots) ELSE slots

\* the call ran a Reset/Presence slot first and sampled the line at lvl
ResetSampled(lvl) == Len(slots) > 0 /\ slots[1] = << "RST", lvl >>

----------------------------------------------------------------------------
(* Properties *)

\* C1 - Idle invariant: whenever begin(), write() or read() has returned,
\* the pin is in output mode and drives the line HIGH.
C1_IdleInvariant ==
  (pc = "idle" /\ op \in { "begin", "write", "read" })
    => (pinMode = "OUTPUT" /\ pinOut = HIGH)

\* a read() with a reset and several Read slots has returned
C1_Witness ==
  Returned("read") /\ ~noReset /\ Count({ "RD" }) >= 2

\* C2 - Absence short-circuit on write: a write(data, noReset = false) that
\* sampled the line HIGH at the presence sample returns false, has emitted
\* exactly one Reset/Presence slot and no Write slot, and an isPresent()
\* that follows returns false.
C2_WriteAbsence ==
  [][ (Returned("write") /\ ~noReset /\ ResetSampled(HIGH))
        => /\ ret = FALSE
           /\ Count({ "RST" }) = 1
           /\ Count({ "WR0", "WR1" }) = 0
           /\ (op' = "isPresent" => ret' = FALSE) ]_vars

\* such a write() has returned on an instance that has bits to send
C2_Witness ==
  Returned("write") /\ ~noReset /\ ResetSampled(HIGH) /\ _bppPri > 0

\* C3 - Absence sentinel on read: a read(noReset = false) that sampled the
\* line HIGH at the presence sample returns 0xFFFFFFFF and has emitted
\* exactly one Reset/Presence slot and no Read slot.
C3_ReadAbsence ==
  (Returned("read") /\ ~noReset /\ ResetSampled(HIGH))
    => /\ ret = Ones32
       /\ Count({ "RST" }) = 1
       /\ Count({ "RD" }) = 0

\* such a read() has returned on an instance that has bits to receive
C3_Witness ==
  Returned("read") /\ ~noReset /\ ResetSampled(HIGH) /\ _bppSec > 0

\* C4 - as claimed: a write() that returns false, with noReset true or
\* false, has transmitted no Write slot.
C4_FalseMeansNothingSent ==
  (Returned("write") /\ ret = FALSE) => Count({ "WR0", "WR1" }) = 0

\* C4 - as the code has it: a write(data, noReset = false) that returns
\* false has transmitted no Write slot.
C4_FalseAfterResetMeansNothingSent ==
  (Returned("write") /\ ~noReset /\ ret = FALSE)
    => Count({ "WR0", "WR1" }) = 0

\* a write() with a reset has returned false where there were bits to send
C4_Witness ==
  Returned("write") /\ ~noReset /\ ret = FALSE /\ _bppPri > 0

\* C5 - Reset ordering: a write() or read() with noReset = false runs
\* exactly one Reset/Presence slot, complete before the first data slot
\* begins; a call with noReset = true runs none.
C5_ResetOrdering ==
  (op \in { "write", "read" })
    => IF noReset
         THEN Count({ "RST" }) = 0 /\ cur # "RST"
         ELSE /\ \A k \in 2 .. Len(slots) : slots[k][1] # "RST"
              /\ (cur = "RST" => slots = << >>)
              /\ (IsData(cur) => (Len(slots) > 0 /\ slots[1][1] = "RST"))
              /\ (pc = "idle" => Count({ "RST" }) = 1)

\* a write() with a reset is in its second Write slot
C5_Witness ==
  op = "write" /\ ~noReset /\ pc = "sig_active" /\ IsWrite(cur)
    /\ Len(slots) = 2

\* the slot that carries bit k of the value v in a write()
ExpectedWrite(v, k) ==
  IF WBit(v, k) = 1 THEN << "WR1", 1 >> ELSE << "WR0", 0 >>

\* v & ((1 << w) - 1), for 1 <= w <= 32
LowBits(v, w) ==
  IF w >= PacketBits THEN v
  ELSE IF w >= ShortBits THEN W32(v[1] % (2 ^ (w - ShortBits)), v[2])
  ELSE W32(0, v[2] % (2 ^ w))

\* C6 - LSB-first write: with bppPri in 1..32, a write(v) that transmits
\* emits exactly bppPri Write slots, slot k (from 0) being Write-1 iff bit k
\* of v is 1 and Write-0 otherwise; the slots are those of
\* v & ((1 << bppPri) - 1), so the higher bits of v have no effect.
C6_WriteLsbFirst ==
  (Returned("write") /\ (noReset \/ ResetSampled(LOW))
     /\ _bppPri >= 1 /\ _bppPri <= PacketBits)
    => /\ Len(DataSlots) = _bppPri
       /\ \A k \in 0 .. _bppPri - 1 :
            /\ DataSlots[k + 1] = ExpectedWrite(arg, k)
            /\ DataSlots[k + 1] = ExpectedWrite(LowBits(arg, _bppPri), k)
       /\ \A k \in _bppPri .. PacketBits - 1 :
            WBit(LowBits(arg, _bppPri), k) = 0

\* a write() of a value with ones above the width and mixed bits below it
\* has transmitted
C6_Witness ==
  Returned("write") /\ (noReset \/ ResetSampled(LOW)) /\ _bppPri = 5
    /\ arg = W32(43690, 43690)

\* C7 - LSB-first read: a read() that is not short-circuited performs
\* exactly bppSec Read slots and returns the value whose bit k (k in
\* 0..bppSec-1) is 1 iff the line was sampled HIGH in Read slot k; every bit
\* of the result at a position >= bppSec is 0.
C7_ReadLsbFirst ==
  (Returned("read") /\ ~(~noReset /\ ResetSampled(HIGH)))
    => /\ Len(DataSlots) = _bppSec
       /\ \A k \in 0 .. _bppSec - 1 :
            /\ DataSlots[k + 1][1] = "RD"
            /\ (WBit(ret, k) = 1) <=> (DataSlots[k + 1][2] = HIGH)
       /\ \A k \in _bppSec .. PacketBits - 1 : WBit(ret, k) = 0

C9_WidthValidation ==
  /\ _bppPri >= 1 /\ _bppPri <= PacketBits
  /\ _bppSec >= 1 /\ _bppSec <= PacketBits
  /\ (Returned("write") /\ (noReset \/ ResetSampled(LOW)))
       => (Count({ "WR0", "WR1" }) >= 1
             /\ Count({ "WR0", "WR1" }) <= PacketBits)
  /\ (Returned("read") /\ ~(~noReset /\ ResetSampled(HIGH)))
       => (Count({ "RD" }) >= 1 /\ Count({ "RD" }) <= PacketBits)

\* C10 - Delay clamping: every delay issued by write(), read() and the
\* Reset/Presence slot has the argument max(0, nominal - correction).
C10_DelayClamped ==
  lastDelay.arg = Max(0, lastDelay.nominal - lastDelay.corr)

\* C11 - presence after begin(): whenever begin() has returned, presence is
\* false, also on an instance whose last Reset/Presence slot detected the
\* SEC.
C11_BeginClearsPresence ==
  Returned("begin") => (isPresent = FALSE)

\* C12 - Chained noReset: a write(data, noReset = true) runs no
\* Reset/Presence slot, emits exactly bppPri Write slots whatever the stored
\* presence is, leaves the presence as it found it and returns it; and the
\* write(b, noReset = true) that follows a write(a, noReset = false) which
\* found the SEC goes on from one Reset/Presence slot followed by bppPri
\* Write slots, so the two calls make one reset followed by bppPri + bppPri
\* data slots.
C12_ChainedNoReset ==
  [][ /\ (op' = "write" /\ noReset')
           => /\ _presence' = _presence
              /\ cur' # "RST"
              /\ (Count({ "RST" }))' = 0
      /\ (Returned("write") /\ noReset)
           => /\ Len(slots) = _bppPri
              /\ \A k \in 1 .. Len(slots) : IsWrite(slots[k][1])
              /\ ret = entry.presence
              /\ isPresent = entry.presence
      /\ (Returned("write") /\ ~noReset /\ ResetSampled(LOW)
            /\ op' = "write" /\ noReset')
           => /\ Len(slots) = 1 + _bppPri
              /\ \A k \in 2 .. Len(slots) : IsWrite(slots[k][1])
              /\ entry'.resets = 1
              /\ entry'.writes = _bppPri
      /\ (Returned("write") /\ noReset /\ entry.resets = 1
            /\ entry.writes = _bppPri)
           => /\ entry.resets + Count({ "RST" }) = 1
              /\ entry.writes + Count({ "WR0", "WR1" }) = _bppPri + _bppPri
    ]_vars

\* the write(b, noReset = true) that follows a write(a, noReset = false)
\* which found the SEC has returned
C12_Witness ==
  Returned("write") /\ noReset /\ entry.resets = 1 /\ entry.writes = _bppPri
    /\ _bppPri >= 2 /\ Len(slots) = _bppPri /\ ret = TRUE

\* C13 - Automatic recovery from absence: a write() or read() with
\* noReset = false that is entered with presence false runs the
\* Reset/Presence slot again, and if the line is LOW at the presence sample
\* the call performs all its data slots, write() returns true, and presence
\* is true, as the isPresent() that follows returns.
C13_RecoveryFromAbsence ==
  [][ (pc = "idle" /\ op \in { "write", "read" } /\ ~noReset
         /\ ~entry.presence)
        => /\ Count({ "RST" }) = 1
           /\ slots[1][1] = "RST"
           /\ ResetSampled(LOW)
                => /\ Len(DataSlots)
                        = (IF op = "write" THEN _bppPri ELSE _bppSec)
                   /\ \A k \in 1 .. Len(DataSlots) :
                        DataSlots[k][1]
                          \in (IF op = "write" THEN { "WR0", "WR1" }
                                               ELSE { "RD" })
                   /\ (op = "write" => ret = TRUE)
                   /\ isPresent = TRUE
                   /\ (op' = "isPresent" => ret' = TRUE) ]_vars

\* a write() entered with presence false has found the SEC and sent its
\* bits
C13_Witness ==
  Returned("write") /\ ~noReset /\ ~entry.presence /\ ResetSampled(LOW)
    /\ ret = TRUE /\ _bppPri >= 2 /\ Len(DataSlots) = _bppPri

\* the nominal times the code passes to a delay
NominalTimes ==
  { OPT_RST_SIGNAL, OPT_RST_PRS_SAMPLE, OPT_RST_END, OPT_WR1_SIGNAL,
    OPT_WR1_PAUSE, OPT_WR0_SIGNAL, OPT_WR0_PAUSE, OPT_RD_INIT, OPT_RD_SAMPLE,
    OPT_RD_PAUSE }

\* begin() has calibrated both corrections below every nominal time
SmallCorrections ==
  begun /\ \A n \in NominalTimes : _writeTime < n /\ _switchTime < n

\* the delay just issued was delayMicroseconds(nominal - corr), the
\* difference taken in the integers
Issued(nominal, corr) ==
  /\ prims'.delay = prims.delay + 1
  /\ lastDelay' = [ nominal |-> nominal, corr |-> corr,
                    arg |-> nominal - corr ]

\* C14 - Calibration subtraction: with both corrections below every nominal
\* time, the two delays of a pull are issued with (nominal - writeTime), the
\* delays after a direction change (presence sample, reset end, read
\* sample, read pause) with (nominal - switchTime), and a pull with
\* pause = 0 (the pulls of the Reset/Presence and Read slots) issues one
\* delay and goes on with the direction change.
C14_CalibrationSubtraction ==
  [][ (SmallCorrections /\ op \in { "write", "read" })
        => /\ (pc = "sig_active" => Issued(Active(cur), _writeTime))
           /\ (pc = "sig_pause" => Issued(Pause(cur), _writeTime))
           /\ (pc = "r_wait" => Issued(OPT_RST_PRS_SAMPLE, _switchTime))
           /\ (pc = "r_end" => Issued(OPT_RST_END, _switchTime))
           /\ (pc = "rd_wait" => Issued(OPT_RD_SAMPLE, _switchTime))
           /\ (pc = "rd_pause" => Issued(OPT_RD_PAUSE, _switchTime))
           /\ (pc = "sig_high"
                 => /\ prims'.delay = prims.delay
                    /\ lastDelay' = lastDelay
                    /\ (pc' = "sig_pause") <=> (Pause(cur) # 0)
                    /\ (cur \in { "RST", "RD" }
                          => (Pause(cur) = 0
                                /\ pc' \in { "r_input", "rd_input" })))
           /\ (pc \in { "r_input", "rd_input" }
                 => prims'.mode = prims.mode + 1
                      /\ prims'.delay = prims.delay) ]_vars

\* on a host whose primitives cost something, a read() has issued the delay
\* before its sample and a pull with pause = 0 before that
C14_Witness ==
  /\ SmallCorrections /\ _switchTime > 0 /\ _writeTime > 0
  /\ op = "read" /\ pc = "rd_sample" /\ cur = "RD"
  /\ lastDelay.arg = OPT_RD_SAMPLE - _switchTime
  /\ prims.delay = 2

\* a 32 bit value as a number
Micros(w) == w[1] * Half + w[2]

\* the durations of the logged slots after the Reset/Presence slot
DataTook ==
  IF Len(slots) > 0 /\ slots[1][1] = "RST" THEN Tail(took) ELSE took

RECURSIVE Total(_)
Total(ts) == IF ts = << >> THEN 0 ELSE Micros(Head(ts)) + Total(Tail(ts))

\* every digitalWrite() costs exactly the calibrated _writeTime, which is
\* below 0.5 T
ExactWrites == begun /\ _writeTime = writeCost /\ 2 * _writeTime < OPT

\* C15 - Write slot duration: when every digitalWrite() costs exactly the
\* calibrated writeTime (below 0.5 T), a Write-1 slot takes
\* WR1_SIGNAL + WR1_PAUSE = T and a Write-0 slot WR0_SIGNAL + WR0_PAUSE = 2 T
\* from the start of the drive-low to the end of the pause delay, and the
\* Write slots of a write(0) take 2 T bppPri together.
C15_WriteSlotDuration ==
  (ExactWrites /\ op = "write")
    => /\ Len(took) = Len(slots)
       /\ \A k \in 1 .. Len(slots) :
            /\ (slots[k][1] = "WR1"
                  => /\ Micros(took[k]) = OPT_WR1_SIGNAL + OPT_WR1_PAUSE
                     /\ Micros(took[k]) = OPT)
            /\ (slots[k][1] = "WR0"
                  => /\ Micros(took[k]) = OPT_WR0_SIGNAL + OPT_WR0_PAUSE
                     /\ Micros(took[k]) = 2 * OPT)
       /\ (pc = "idle" /\ arg = Zero32 /\ (noReset \/ ResetSampled(LOW)))
            => Total(DataTook) = 2 * OPT * _bppPri

\* on a host whose digitalWrite() costs something, a write(0) of 8 bits
\* that found the SEC has returned after 16 T of Write slots
C15_Witness ==
  /\ Returned("write") /\ ExactWrites /\ _writeTime > 0
  /\ arg = Zero32 /\ ResetSampled(LOW) /\ _bppPri = 8
  /\ Len(DataTook) = 8 /\ Total(DataTook) = 16 * OPT

\* every digitalWrite() costs exactly the calibrated _writeTime and every
\* pinMode() exactly the calibrated _switchTime
ExactCosts == begun /\ _writeTime = writeCost /\ _switchTime = switchCost

\* C16 - Read slot duration: when every digitalWrite() costs exactly
\* writeTime, every pinMode() exactly switchTime and the sample nothing, a
\* Read slot takes RD_INIT + RD_SAMPLE + RD_PAUSE from the start of the
\* drive-low to the end of its last delay.
C16_ReadSlotDuration ==
  (ExactCosts /\ op = "read")
    => \A k \in 1 .. Len(slots) :
         slots[k][1] = "RD"
           => Micros(took[k]) = OPT_RD_INIT + OPT_RD_SAMPLE + OPT_RD_PAUSE

\* every pinMode() costs exactly the calibrated _switchTime, which is at
\* most 0.5 T
ExactSwitches == begun /\ _switchTime = switchCost /\ 2 * _switchTime <= OPT

\* microseconds from the rising edge of the pull (the digitalWrite(HIGH)
\* has taken effect) to the sample
SampleOffset == Micros(WSub(stamp.sample, stamp.high))

\* C17 - Sampling inside the SEC window: with every pinMode() costing
\* exactly switchTime <= 0.5 T, the presence sample is taken RST_PRS_SAMPLE
\* (T) after the rising edge of the PRI, before the end of the presence
\* pulse of the SEC (RST_PRESENCE, 1.5 T), and the sample of a Read slot
\* RD_SAMPLE (0.5 T) after the rising edge, before the end of the hold of
\* the SEC (RD0_SIGNAL, T).
C17_SampleInsideWindow ==
  ExactSwitches
    => /\ (pc = "r_restore"
             => /\ SampleOffset = OPT_RST_PRS_SAMPLE
                /\ SampleOffset = OPT
                /\ SampleOffset < OPT_RST_PRESENCE)
       /\ (pc = "rd_restore"
             => /\ SampleOffset = OPT_RD_SAMPLE
                /\ 2 * SampleOffset = OPT
                /\ SampleOffset < OPT_RD0_SIGNAL)

\* on a host whose pinMode() costs something, a read() that found the SEC
\* has just sampled its second Read slot
C17_Witness ==
  /\ ExactSwitches /\ _switchTime > 0
  /\ op = "read" /\ pc = "rd_restore" /\ ResetSampled(LOW) /\ Len(slots) = 2
  /\ SampleOffset = OPT_RD_SAMPLE

\* what micros() - start is now
Elapsed == Micros(WSub(clock, start))

\* C18 - Calibration result and stability: with a constant cost per
\* primitive, begin() has made 128 pinMode() calls when it sets switchTime
\* to the elapsed microseconds divided by 128, and 256 digitalWrite() calls
\* when it sets writeTime to the elapsed microseconds divided by 256
\* (integer division); both are non-negative, and a begin() on an instance
\* that begin() has calibrated before assigns the values it finds.
C18_CalibrationStable ==
  [][ /\ (op = "begin" /\ pc = "b_output")
           => /\ prims.mode = 2 * SwitchLoops
              /\ prims.mode = 2 ^ SwitchShift
              /\ Elapsed = prims.mode * switchCost
              /\ _switchTime = Elapsed \div prims.mode
              /\ _switchTime >= 0
      /\ (op = "begin" /\ pc = "b_idle")
           => /\ prims.write = 2 * WriteLoops
              /\ prims.write = 2 ^ WriteShift
              /\ Elapsed = prims.write * writeCost
              /\ _writeTime = Elapsed \div prims.write
              /\ _writeTime >= 0
      /\ (begun /\ pc = "b_switch" /\ pc' = "b_output")
           => _switchTime' = _switchTime
      /\ (begun /\ pc = "b_write" /\ pc' = "b_idle")
           => _writeTime' = _writeTime
      /\ (begun /\ op = "begin" /\ pc' = "idle")
           => (_switchTime' = _switchTime /\ _writeTime' = _writeTime)
    ]_vars

\* begin() has returned once more, on an instance that has found the SEC
\* since its first begin(), on a host whose primitives cost something
C18_Witness ==
  /\ Returned("begin") /\ entry.presence
  /\ switchCost > 0 /\ writeCost > 0
  /\ _switchTime = switchCost /\ _writeTime = writeCost

\* a < b for 32 bit values
Less32(a, b) == a[1] < b[1] \/ (a[1] = b[1] /\ a[2] < b[2])

\* micros() has wrapped around since start was taken
Wrapped == Less32(clock, start)

\* C19 - Clock wrap-around tolerance: when micros() wraps around during a
\* calibration loop of begin(), the switchTime and the writeTime computed
\* are those computed from the same elapsed time on a counter that starts
\* at 0 and does not wrap.
C19_WrapTolerated ==
  (op = "begin" /\ Wrapped)
    => /\ (pc = "b_output"
             => _switchTime
                  = Average(W32(0, 2 * SwitchLoops * switchCost), Zero32,
                            SwitchShift))
       /\ (pc = "b_idle"
             => _writeTime
                  = Average(W32(0, 2 * WriteLoops * writeCost), Zero32,
                            WriteShift))

\* micros() has wrapped around during the second calibration loop
C19_Witness ==
  op = "begin" /\ pc = "b_idle" /\ Wrapped /\ writeCost > 0
    /\ _writeTime = writeCost

\* the primitive calls a call has made, all kinds together
TotalPrims == prims.mode + prims.write + prims.read + prims.delay

\* the primitive calls the completed slots are made of: a Reset/Presence
\* slot is 3 pinMode(), 2 digitalWrite(), 1 digitalRead() and 3 delays, a
\* Read slot 2, 2, 1 and 3, a Write slot 2 digitalWrite() and 2 delays
SlotPrims ==
  [ mode  |-> 3 * Count({ "RST" }) + 2 * Count({ "RD" }),
    release |-> Count({ "RST" }) + Count({ "RD" }),
    write |-> 2 * Len(slots),
    read  |-> Count({ "RST" }) + Count({ "RD" }),
    delay |-> 3 * Count({ "RST" }) + 3 * Count({ "RD" })
                + 2 * Count({ "WR0", "WR1" }) ]

\* the most primitive calls the running call can make
MaxPrims ==
  CASE op = "begin" -> (2 * SwitchLoops + 1) + (2 * WriteLoops + 1)
    [] op = "write" -> 9 + 4 * _bppPri
    [] op = "read"  -> 9 + 8 * _bppSec
    [] OTHER        -> 0

\* where a step that calls no primitive leads: the tests (rank 0) lead to
\* the loop heads (1), the loop heads into a slot or to the return (2)
Rank ==
  CASE pc \in { "idle", "sig_low" } -> 2
    [] pc \in { "w_loop", "rd_loop", "b_output", "b_idle" } -> 1
    [] OTHER -> 0

\* grows with every step of a call
Progress == 3 * TotalPrims + Rank

\* C20 - Run to completion: every step of a begin(), write() or read() is
\* followed by another one until the call returns, each step moves the call
\* on and the primitive calls of a call are bounded by a number fixed by
\* the call and the widths; the sample steps go on whatever level the line
\* has; a call makes at most one Reset/Presence slot, first, then at most
\* bppPri Write slots or bppSec Read slots; a call that has returned has
\* made exactly the primitive calls of its slots, and either no data slot
\* or all of them.
C20_RunToCompletion ==
  [][ /\ (pc # "idle") => (ENABLED Next /\ Progress' > Progress)
      /\ Progress <= 3 * MaxPrims + 2
      /\ (pc = "r_sample"
            => (ENABLED ResetSample(LOW) /\ ENABLED ResetSample(HIGH)))
      /\ (pc = "rd_sample" => ENABLED ReadSample)
      /\ Count({ "RST" }) <= 1
      /\ \A k \in 2 .. Len(slots) : slots[k][1] # "RST"
      /\ (op = "write"
            => /\ Len(DataSlots) <= _bppPri
               /\ \A k \in 1 .. Len(DataSlots) : IsWrite(DataSlots[k][1]))
      /\ (op = "read"
            => /\ Len(DataSlots) <= _bppSec
               /\ \A k \in 1 .. Len(DataSlots) : DataSlots[k][1] = "RD")
      /\ (op \in { "begin", "isPresent" } => slots = << >>)
      /\ Returned("begin")
           => prims = [ mode |-> 2 * SwitchLoops + 1,
                        release |-> SwitchLoops,
                        write |-> 2 * WriteLoops + 1,
                        read |-> 0, delay |-> 0 ]
      /\ Returned("write")
           => (prims = SlotPrims /\ Len(DataSlots) \in { 0, _bppPri })
      /\ Returned("read")
           => (prims = SlotPrims /\ Len(DataSlots) \in { 0, _bppSec })
    ]_vars

\* a read() of 8 bits that found the SEC has returned what the SEC
\* answered, some slots sampled LOW and some HIGH
C20_Witness ==
  /\ Returned("read") /\ ResetSampled(LOW) /\ _bppSec = 8
  /\ ret = W32(0, 180) /\ Len(slots) = 9
  /\ TotalPrims = MaxPrims

\* C21 - Frame of the transaction operations: no step of write(), read(),
\* the Reset/Presence slot or isPresent() changes switchTime, writeTime,
\* bppPri, bppSec or the pin number; of the members only the presence flag
\* changes, at the presence sample, and isPresent() changes neither it nor
\* the state of the pin.
C21_TransactionFrame ==
  [][ (op' \in { "write", "read", "isPresent" })
        => /\ _switchTime' = _switchTime
           /\ _writeTime' = _writeTime
           /\ _bppPri' = _bppPri
           /\ _bppSec' = _bppSec
           /\ _pin' = _pin
           /\ (_presence' # _presence => (pc = "r_sample" /\ cur = "RST"))
           /\ (obj' # obj => _presence' # _presence)
           /\ (op' = "isPresent"
                 => UNCHANGED << obj, pinMode, pinOut >>) ]_vars

\* on a host whose primitives cost something, a read() entered with
\* presence false has found the SEC and returned: the presence flag has
\* changed and the calibration is what begin() measured
C21_Witness ==
  /\ Returned("read") /\ ~entry.presence /\ _presence /\ Len(slots) > 2
  /\ switchCost > 0 /\ _switchTime = switchCost
  /\ writeCost > 0 /\ _writeTime = writeCost

\* C22 - Direction discipline: during write(), read() and the
\* Reset/Presence slot the pin is sampled only in input-pullup mode and
\* driven LOW or HIGH only in output mode; after each release to input the
\* line is sampled exactly once before the pin is switched back to output,
\* and it is switched back before the next drive.
C22_DirectionDiscipline ==
  [][ (op \in { "write", "read" } /\ pc # "idle")
        => /\ pinMode \in { "OUTPUT", "INPUT_PULLUP" }
           /\ prims.read <= prims.release
           /\ prims.release <= prims.read + 1
           /\ (pinMode = "OUTPUT" => prims.read = prims.release)
           /\ (prims'.read # prims.read
                 => /\ pinMode = "INPUT_PULLUP"
                    /\ prims.read = prims.release - 1
                    /\ sampled' \in { LOW, HIGH })
           /\ (prims'.write # prims.write
                 => /\ pinMode = "OUTPUT"
                    /\ prims.read = prims.release)
           /\ (pinMode # "OUTPUT" /\ pinMode' = "OUTPUT")
                => prims.read = prims.release
           /\ (pinMode = "OUTPUT" /\ pinMode' # "OUTPUT")
                => /\ pinMode' = "INPUT_PULLUP"
                   /\ prims'.release = prims.release + 1
                   /\ pinOut = HIGH ]_vars

\* a read() has released the line three times (the Reset/Presence slot and
\* two Read slots), sampled it each time and switched back to output
C22_Witness ==
  /\ op = "read" /\ pc = "rd_pause" /\ pinMode = "OUTPUT"
  /\ prims.release = 3 /\ prims.read = 3 /\ Len(slots) = 2

====
